---------------------------- MODULE Spec2Model ----------------------------
(***************************************************************************)
(* A state-machine model of the inventory application in src/app.py:      *)
(* the User and Item tables, the login sessions, the register requests    *)
(* that are between their existence check and their commit, and the last  *)
(* HTTP response the application produced.                                 *)
(*                                                                         *)
(* Text entered by a client is a sequence of one-character strings, so    *)
(* that length checks, stripping and number parsing are computed.          *)
(* A Python float is represented by the number of hundredths it holds     *)
(* (2.50 is 250); every price the model submits has at most two decimals. *)
(* The language of the source is Python 3: str and bytes are distinct.    *)
(***************************************************************************)
EXTENDS Integers, Sequences, FiniteSets, TLC

VARIABLES User, Item, session, pending, resp

vars == <<User, Item, session, pending, resp>>

(***************************************************************************)
(* Bounds of the model.                                                    *)
(***************************************************************************)
MaxItems == 2

\* Largest row id the model lets the Item table hand out.
MaxId == MaxItems

(***************************************************************************)
(* Constants of the program.                                               *)
(***************************************************************************)
UsernameMinLen == 4
UsernameMaxLen == 150
PasswordMinLen == 4

(***************************************************************************)
(* Text helpers.                                                           *)
(***************************************************************************)
Digits == {"0", "1", "2", "3", "4", "5", "6", "7", "8", "9"}

DigitVal(c) ==
    CASE c = "0" -> 0 [] c = "1" -> 1 [] c = "2" -> 2 [] c = "3" -> 3
      [] c = "4" -> 4 [] c = "5" -> 5 [] c = "6" -> 6 [] c = "7" -> 7
      [] c = "8" -> 8 [] c = "9" -> 9

Whitespace == {" ", "\t", "\n"}

RECURSIVE lstrip(_)
lstrip(t) ==
    IF t # <<>> /\ Head(t) \in Whitespace THEN lstrip(Tail(t)) ELSE t

RECURSIVE rstrip(_)
rstrip(t) ==
    IF t # <<>> /\ t[Len(t)] \in Whitespace
    THEN rstrip(SubSeq(t, 1, Len(t) - 1)) ELSE t

\* str.strip()
strip(t) == rstrip(lstrip(t))

AllDigits(t) == t # <<>> /\ \A i \in 1..Len(t) : t[i] \in Digits

RECURSIVE DigitsValue(_)
DigitsValue(t) ==
    IF t = <<>> THEN 0
    ELSE 10 * DigitsValue(SubSeq(t, 1, Len(t) - 1)) + DigitVal(t[Len(t)])

IndexOf(t, c) ==
    IF \E i \in 1..Len(t) : t[i] = c
    THEN CHOOSE i \in 1..Len(t) : t[i] = c /\ \A j \in 1..(i - 1) : t[j] # c
    ELSE 0

HasSign(t) == t # <<>> /\ Head(t) \in {"-", "+"}
Unsigned(t) == IF HasSign(t) THEN Tail(t) ELSE t
SignOf(t) == IF t # <<>> /\ Head(t) = "-" THEN -1 ELSE 1

(***************************************************************************)
(* Python values held by form fields: None, str, int, float.               *)
(***************************************************************************)
PyNone == [t |-> "NoneType"]
PyStr(v) == [t |-> "str", s |-> v]
PyInt(v) == [t |-> "int", n |-> v]
PyFloat(v) == [t |-> "float", h |-> v]

\* bool(value)
Truthy(d) ==
    CASE d.t = "NoneType" -> FALSE
      [] d.t = "str" -> d.s # <<>>
      [] d.t = "int" -> d.n # 0
      [] d.t = "float" -> d.h # 0

\* int(text): surrounding whitespace, an optional sign, decimal digits.
\* The result is <<value>>, or <<>> for ValueError.
int(text) ==
    LET t == strip(text) IN
    IF AllDigits(Unsigned(t)) THEN <<SignOf(t) * DigitsValue(Unsigned(t))>>
    ELSE <<>>

\* float(text): surrounding whitespace, an optional sign, digits with an
\* optional fraction of at most two digits. The result is <<hundredths>>,
\* or <<>> for ValueError.
float(text) ==
    LET t == strip(text)
        u == Unsigned(t)
        dot == IndexOf(u, ".")
        whole == IF dot = 0 THEN u ELSE SubSeq(u, 1, dot - 1)
        frac == IF dot = 0 THEN <<>> ELSE SubSeq(u, dot + 1, Len(u))
        padded == IF Len(frac) = 0 THEN <<"0", "0">>
                  ELSE IF Len(frac) = 1 THEN frac \o <<"0">> ELSE frac
    IN  IF /\ u # <<>>
           /\ whole \o frac # <<>>
           /\ \A i \in 1..Len(whole) : whole[i] \in Digits
           /\ \A i \in 1..Len(frac) : frac[i] \in Digits
           /\ Len(frac) <= 2
        THEN <<SignOf(t) * (100 * DigitsValue(whole) + DigitsValue(padded))>>
        ELSE <<>>


(***************************************************************************)
(* Form layer: field processing and validators (wtforms, Flask-WTF).       *)
(* A submitted form gives each field its valuelist: <<>> when the field    *)
(* was not posted, <<text>> when it was. csrf tells whether the posted     *)
(* CSRF token is the session's.                                            *)
(***************************************************************************)

\* DataRequired: the data is truthy and, for a string, not only whitespace.
DataRequired(d) == Truthy(d) /\ (d.t = "str" => strip(d.s) # <<>>)

\* Length(min, max) on a string field.
Length(d, min, max) ==
    LET length == IF Truthy(d) THEN Len(d.s) ELSE 0
    IN  length >= min /\ (max = -1 \/ length <= max)

\* EqualTo(other)
EqualTo(d, other) == d = other

\* StringField.process: the posted text, else the data it was built with.
StringField(valuelist, data) ==
    IF valuelist # <<>> THEN PyStr(valuelist[1]) ELSE data

\* IntegerField.process: int() of the posted text, None when it raises.
IntegerField(valuelist, data) ==
    IF valuelist = <<>> THEN data
    ELSE IF int(valuelist[1]) = <<>> THEN PyNone
    ELSE PyInt(int(valuelist[1])[1])

\* FloatField.process: float() of the posted text, None when it raises.
FloatField(valuelist, data) ==
    IF valuelist = <<>> THEN data
    ELSE IF float(valuelist[1]) = <<>> THEN PyNone
    ELSE PyFloat(float(valuelist[1])[1])

\* LoginForm(): the processed fields of a posted login form.
LoginForm(form) ==
    [csrf |-> form.csrf,
     username |-> StringField(form.username, PyNone),
     password |-> StringField(form.password, PyNone)]

LoginForm_validate(f) ==
    /\ f.csrf
    /\ DataRequired(f.username)
    /\ Length(f.username, UsernameMinLen, UsernameMaxLen)
    /\ DataRequired(f.password)

\* RegisterForm()
RegisterForm(form) ==
    [csrf |-> form.csrf,
     username |-> StringField(form.username, PyNone),
     password |-> StringField(form.password, PyNone),
     confirm_password |-> StringField(form.confirm_password, PyNone)]

RegisterForm_validate(f) ==
    /\ f.csrf
    /\ DataRequired(f.username)
    /\ Length(f.username, UsernameMinLen, UsernameMaxLen)
    /\ DataRequired(f.password)
    /\ Length(f.password, PasswordMinLen, -1)
    /\ DataRequired(f.confirm_password)
    /\ EqualTo(f.confirm_password, f.password)

\* The field data of ItemForm(obj=item).
ItemData(item) ==
    [name |-> PyStr(item.name), quantity |-> PyInt(item.quantity),
     price |-> PyFloat(item.price)]

\* The field data of ItemForm() built without an object.
NoData == [name |-> PyNone, quantity |-> PyNone, price |-> PyNone]

\* ItemForm(): the processed fields of a posted item form.
ItemForm(form, data) ==
    [csrf |-> form.csrf,
     name |-> StringField(form.name, data.name),
     quantity |-> IntegerField(form.quantity, data.quantity),
     price |-> FloatField(form.price, data.price)]

ItemForm_validate(f) ==
    /\ f.csrf
    /\ DataRequired(f.name)
    /\ DataRequired(f.quantity)
    /\ DataRequired(f.price)

\* form.validate_on_submit(): a POST whose form validates.
validate_on_submit(method, valid) == method = "POST" /\ valid

(***************************************************************************)
(* Password hashing (werkzeug.security). The digest is an ideal one-way    *)
(* function of the salt and the password: equal digests mean equal inputs. *)
(***************************************************************************)
Digest(salt, password) == <<salt>> \o password

generate_password_hash(password, salt) ==
    [method |-> "pbkdf2:sha256", salt |-> salt,
     digest |-> Digest(salt, password)]

check_password_hash(pwhash, password) ==
    pwhash.digest = Digest(pwhash.salt, password)

\* User.set_password: the row with its password hash set.
set_password(user, password, salt) ==
    [user EXCEPT !.password_hash = generate_password_hash(password, salt)]

\* check_password that accepts any password of an existing user.
check_password_any(user, password) == user.password_hash # PyNone

\* User.check_password
check_password(user, password) ==
    check_password_hash(user.password_hash, password)

(***************************************************************************)
(* Store: the two tables are sequences of rows in rowid order.             *)
(***************************************************************************)
Ids(table) == {table[i].id : i \in 1..Len(table)}

\* The id SQLite gives a row inserted without one: the largest rowid plus 1.
NextId(table) ==
    IF table = <<>> THEN 1
    ELSE 1 + CHOOSE m \in Ids(table) : \A k \in Ids(table) : k <= m

\* filter_by_username with a filter that matches no row.
filter_by_username_none(username) ==
    SelectSeq(User, LAMBDA u : FALSE)

\* User.query.filter_by(username=...) in rowid order; .first() is its head.
filter_by_username(username) ==
    SelectSeq(User, LAMBDA u : u.username = username)

\* Model.query.get(id): <<row>>, or <<>> for None.
query_get(table, id) == SelectSeq(table, LAMBDA r : r.id = id)

\* unique_username for a column declared without unique=True.
unique_username_off(username) == TRUE

\* The unique=True constraint on User.username: may this row be inserted?
unique_username(username) ==
    \A i \in 1..Len(User) : User[i].username # username

\* load_user(user_id)
load_user(user_id) == query_get(User, user_id)

\* current_user.is_authenticated for the request of session s.
is_authenticated(s) == load_user(session[s]) # <<>>

(***************************************************************************)
(* Responses.                                                              *)
(***************************************************************************)
NoFlash == ""
LoginRequired == "Please log in to access this page."
LoggedIn == "Logged in successfully!"
InvalidCredentials == "Invalid username or password."
LoggedOut == "You have been logged out."
DuplicateUsername == "Username already exists."
Registered == "Registration successful! Please log in."
ItemAdded == "Item added successfully!"
ItemUpdated == "Item updated successfully!"
ItemDeleted == "Item deleted successfully."

redirect(endpoint, message) ==
    [status |-> 302, location |-> endpoint, template |-> "",
     flash |-> message, error |-> "", body |-> <<>>]

render_template(template, message, body) ==
    [status |-> 200, location |-> "", template |-> template,
     flash |-> message, error |-> "", body |-> body]

\* An error response: 404 from get_or_404, 500 from an unhandled exception.
abort(code, error) ==
    [status |-> code, location |-> "", template |-> "",
     flash |-> NoFlash, error |-> error, body |-> <<>>]

send_file(lines) ==
    [status |-> 200, location |-> "", template |-> "inventory.csv",
     flash |-> NoFlash, error |-> "", body |-> lines]

\* login_manager.unauthorized(): the redirect the route guard answers with.
unauthorized == redirect("login", LoginRequired)

(***************************************************************************)
(* Sessions (flask_login).                                                 *)
(***************************************************************************)
Sessions == {"c1", "c2"}

\* login_user(user): the session remembers the user's id.
login_user(s, user) == [session EXCEPT ![s] = user.id]

\* logout_user that leaves the user id in the session.
logout_user_keep(s) == session

\* logout_user(): the session forgets it (0 stands for no user id).
logout_user(s) == [session EXCEPT ![s] = 0]

(***************************************************************************)
(* Route handlers. Each takes the session s of the request, and where the  *)
(* route has them the HTTP method, the posted form and the item id.        *)
(***************************************************************************)

\* GET /
index(s) ==
    /\ resp' = IF ~is_authenticated(s) THEN unauthorized
               ELSE render_template("index.html", NoFlash, Item)
    /\ UNCHANGED <<User, Item, session, pending>>

\* GET|POST /login
login(s, method, form) ==
    LET f == LoginForm(form)
        user == filter_by_username(f.username.s)
    IN  IF is_authenticated(s)
        THEN /\ resp' = redirect("index", NoFlash)
             /\ UNCHANGED <<User, Item, session, pending>>
        ELSE IF validate_on_submit(method, LoginForm_validate(f))
        THEN IF user # <<>> /\ check_password(user[1], f.password.s)
             THEN /\ session' = login_user(s, user[1])
                  /\ resp' = redirect("index", LoggedIn)
                  /\ UNCHANGED <<User, Item, pending>>
             ELSE /\ resp' = render_template("login.html", InvalidCredentials, <<>>)
                  /\ UNCHANGED <<User, Item, session, pending>>
        ELSE /\ resp' = render_template("login.html", NoFlash, <<>>)
             /\ UNCHANGED <<User, Item, session, pending>>

\* GET /logout
logout(s) ==
    IF ~is_authenticated(s)
    THEN /\ resp' = unauthorized
         /\ UNCHANGED <<User, Item, session, pending>>
    ELSE /\ session' = logout_user(s)
         /\ resp' = redirect("login", LoggedOut)
         /\ UNCHANGED <<User, Item, pending>>

\* register without the current_user.is_authenticated test of line 119.
register_unguarded(s, method, form) ==
    LET f == RegisterForm(form)
    IN  IF validate_on_submit(method, RegisterForm_validate(f))
        THEN IF filter_by_username(f.username.s) # <<>>
             THEN /\ resp' = redirect("register", DuplicateUsername)
                  /\ UNCHANGED <<User, Item, session, pending>>
             ELSE /\ pending' = [pending EXCEPT ![s] =
                                     <<[username |-> f.username.s,
                                        password |-> f.password.s]>>]
                  /\ UNCHANGED <<User, Item, session, resp>>
        ELSE /\ resp' = render_template("register.html", NoFlash, <<>>)
             /\ UNCHANGED <<User, Item, session, pending>>

\* GET|POST /register, up to the existence check (lines 117-128, 135). A
\* request that passes the check stays in flight, in pending[s], until
\* register_commit inserts its row.
register(s, method, form) ==
    LET f == RegisterForm(form)
    IN  IF is_authenticated(s)
        THEN /\ resp' = redirect("index", NoFlash)
             /\ UNCHANGED <<User, Item, session, pending>>
        ELSE IF validate_on_submit(method, RegisterForm_validate(f))
        THEN IF filter_by_username(f.username.s) # <<>>
             THEN /\ resp' = redirect("register", DuplicateUsername)
                  /\ UNCHANGED <<User, Item, session, pending>>
             ELSE /\ pending' = [pending EXCEPT ![s] =
                                     <<[username |-> f.username.s,
                                        password |-> f.password.s]>>]
                  /\ UNCHANGED <<User, Item, session, resp>>
        ELSE /\ resp' = render_template("register.html", NoFlash, <<>>)
             /\ UNCHANGED <<User, Item, session, pending>>

\* The rest of register (lines 129-134) for the request of s in flight:
\* the row is built, hashed with a fresh salt, added and committed. The
\* commit raises IntegrityError when the username is already in the table.
register_commit(s, salt) ==
    LET r == pending[s][1]
        user == set_password([id |-> NextId(User), username |-> r.username,
                              password_hash |-> PyNone], r.password, salt)
    IN  /\ pending[s] # <<>>
        /\ pending' = [pending EXCEPT ![s] = <<>>]
        /\ IF unique_username(user.username)
           THEN /\ User' = Append(User, user)
                /\ resp' = redirect("login", Registered)
           ELSE /\ User' = User
                /\ resp' = abort(500, "IntegrityError")
        /\ UNCHANGED <<Item, session>>

\* GET|POST /item/add
add_item(s, method, form) ==
    LET f == ItemForm(form, NoData)
        item == [id |-> NextId(Item), name |-> f.name.s,
                 quantity |-> f.quantity.n, price |-> f.price.h]
    IN  IF ~is_authenticated(s)
        THEN /\ resp' = unauthorized
             /\ UNCHANGED <<User, Item, session, pending>>
        ELSE IF validate_on_submit(method, ItemForm_validate(f))
        THEN /\ Len(Item) < MaxItems
             /\ item.id <= MaxId
             /\ Item' = Append(Item, item)
             /\ resp' = redirect("index", ItemAdded)
             /\ UNCHANGED <<User, session, pending>>
        ELSE /\ resp' = render_template("item_form.html", NoFlash, <<>>)
             /\ UNCHANGED <<User, Item, session, pending>>

\* edit_item whose update is applied to every row of the table.
edit_item_all(s, method, item_id, form) ==
    LET found == query_get(Item, item_id)
        f == ItemForm(form, ItemData(found[1]))
    IN  IF ~is_authenticated(s)
        THEN /\ resp' = unauthorized
             /\ UNCHANGED <<User, Item, session, pending>>
        ELSE IF found = <<>>
        THEN /\ resp' = abort(404, "NotFound")
             /\ UNCHANGED <<User, Item, session, pending>>
        ELSE IF validate_on_submit(method, ItemForm_validate(f))
        THEN /\ Item' = [i \in 1..Len(Item) |->
                            [Item[i] EXCEPT !.name = f.name.s,
                                            !.quantity = f.quantity.n,
                                            !.price = f.price.h]]
             /\ resp' = redirect("index", ItemUpdated)
             /\ UNCHANGED <<User, session, pending>>
        ELSE /\ resp' = render_template("item_form.html", NoFlash, <<>>)
             /\ UNCHANGED <<User, Item, session, pending>>

\* GET|POST /item/edit/<item_id>
edit_item(s, method, item_id, form) ==
    LET found == query_get(Item, item_id)
        f == ItemForm(form, ItemData(found[1]))
    IN  IF ~is_authenticated(s)
        THEN /\ resp' = unauthorized
             /\ UNCHANGED <<User, Item, session, pending>>
        ELSE IF found = <<>>
        THEN /\ resp' = abort(404, "NotFound")
             /\ UNCHANGED <<User, Item, session, pending>>
        ELSE IF validate_on_submit(method, ItemForm_validate(f))
        THEN /\ Item' = [i \in 1..Len(Item) |->
                            IF Item[i].id = item_id
                            THEN [Item[i] EXCEPT !.name = f.name.s,
                                                 !.quantity = f.quantity.n,
                                                 !.price = f.price.h]
                            ELSE Item[i]]
             /\ resp' = redirect("index", ItemUpdated)
             /\ UNCHANGED <<User, session, pending>>
        ELSE /\ resp' = render_template("item_form.html", NoFlash, <<>>)
             /\ UNCHANGED <<User, Item, session, pending>>

\* delete_item with Item.query.get in place of get_or_404, answering a
\* missing id like a deleted one.
delete_item_quiet(s, item_id) ==
    IF ~is_authenticated(s)
    THEN /\ resp' = unauthorized
         /\ UNCHANGED <<User, Item, session, pending>>
    ELSE /\ Item' = SelectSeq(Item, LAMBDA r : r.id # item_id)
         /\ resp' = redirect("index", ItemDeleted)
         /\ UNCHANGED <<User, session, pending>>

\* delete_item without the login_required decorator of line 171.
delete_item_unguarded(s, item_id) ==
    IF query_get(Item, item_id) = <<>>
    THEN /\ resp' = abort(404, "NotFound")
         /\ UNCHANGED <<User, Item, session, pending>>
    ELSE /\ Item' = SelectSeq(Item, LAMBDA r : r.id # item_id)
         /\ resp' = redirect("index", ItemDeleted)
         /\ UNCHANGED <<User, session, pending>>

\* POST /item/delete/<item_id>
delete_item(s, item_id) ==
    IF ~is_authenticated(s)
    THEN /\ resp' = unauthorized
         /\ UNCHANGED <<User, Item, session, pending>>
    ELSE IF query_get(Item, item_id) = <<>>
    THEN /\ resp' = abort(404, "NotFound")
         /\ UNCHANGED <<User, Item, session, pending>>
    ELSE /\ Item' = SelectSeq(Item, LAMBDA r : r.id # item_id)
         /\ resp' = redirect("index", ItemDeleted)
         /\ UNCHANGED <<User, session, pending>>

(***************************************************************************)
(* Export.                                                                 *)
(***************************************************************************)
CsvHeader == <<"ID", "Name", "Quantity", "Price">>

CsvRow(item) == <<item.id, item.name, item.quantity, item.price>>

\* csv.writer(output).writerow(row): the row's fields in order, formatted
\* into one line, which the writer hands to output.write as a str.
writerow(row) == [type |-> "str", line |-> row]

\* BytesIO.write(data): appends bytes; anything else raises TypeError.
BytesIO_write(output, data) ==
    IF data.type = "bytes"
    THEN [output EXCEPT !.buffer = Append(@, data.line)]
    ELSE [output EXCEPT !.raised = TRUE]

\* The writerow calls of lines 186-188 in order, up to the first that raises.
RECURSIVE writerows(_, _)
writerows(output, rows) ==
    IF rows = <<>> \/ output.raised THEN output
    ELSE writerows(BytesIO_write(output, writerow(Head(rows))), Tail(rows))

\* GET /export
export_items(s) ==
    LET rows == <<CsvHeader>> \o [i \in 1..Len(Item) |-> CsvRow(Item[i])]
        output == writerows([buffer |-> <<>>, raised |-> FALSE], rows)
    IN  /\ resp' = IF ~is_authenticated(s) THEN unauthorized
                   ELSE IF output.raised THEN abort(500, "TypeError")
                   ELSE send_file(output.buffer)
        /\ UNCHANGED <<User, Item, session, pending>>

(***************************************************************************)
(* Inputs the model submits.                                               *)
(***************************************************************************)
alice == <<"a", "l", "i", "c", "e">>
carol == <<"c", "a", "r", "o", "l">>
dave == <<"d", "a", "v", "e">>
bob == <<"b", "o", "b">>
LongName == [i \in 1..(UsernameMaxLen + 1) |-> "x"]
pass1 == <<"p", "a", "s", "s", "1">>
word2 == <<"w", "o", "r", "d", "2">>
abc == <<"a", "b", "c">>
Widget == <<"W", "i", "d", "g", "e", "t">>
Bolt == <<"B", "o", "l", "t">>
Blank == <<" ">>

Methods == {"GET", "POST"}
Salts == {"salt1"}

\* A GET request posts no form.
NoLogin == [csrf |-> FALSE, username |-> <<>>, password |-> <<>>]
NoRegister == [csrf |-> FALSE, username |-> <<>>, password |-> <<>>,
               confirm_password |-> <<>>]
NoItem == [csrf |-> FALSE, name |-> <<>>, quantity |-> <<>>, price |-> <<>>]

LoginForm1(csrf, username, password) ==
    [csrf |-> csrf, username |-> username, password |-> password]

\* Logins of three well-formed names, one with either password, and one
\* malformed form of each kind.
LoginForms ==
    {LoginForm1(TRUE, <<alice>>, <<pass1>>),
     LoginForm1(TRUE, <<alice>>, <<word2>>),
     LoginForm1(TRUE, <<carol>>, <<pass1>>),
     LoginForm1(TRUE, <<carol>>, <<abc>>),
     LoginForm1(TRUE, <<dave>>, <<pass1>>),
     LoginForm1(TRUE, <<bob>>, <<pass1>>),
     LoginForm1(TRUE, <<alice>>, <<>>),
     LoginForm1(FALSE, <<alice>>, <<pass1>>)}

RegisterForm1(csrf, username, password, confirm_password) ==
    [csrf |-> csrf, username |-> username, password |-> password,
     confirm_password |-> confirm_password]

\* Well-formed registrations of two names, one of them with either of two
\* passwords, and one malformed form of each kind.
RegisterForms ==
    {RegisterForm1(TRUE, <<alice>>, <<pass1>>, <<pass1>>),
     RegisterForm1(TRUE, <<alice>>, <<word2>>, <<word2>>),
     RegisterForm1(TRUE, <<carol>>, <<pass1>>, <<pass1>>),
     RegisterForm1(TRUE, <<bob>>, <<pass1>>, <<pass1>>),
     RegisterForm1(TRUE, <<LongName>>, <<pass1>>, <<pass1>>),
     RegisterForm1(TRUE, <<alice>>, <<abc>>, <<abc>>),
     RegisterForm1(TRUE, <<alice>>, <<pass1>>, <<word2>>),
     RegisterForm1(TRUE, <<alice>>, <<pass1>>, <<>>),
     RegisterForm1(FALSE, <<alice>>, <<pass1>>, <<pass1>>)}

\* A client has at most one request in flight.
Idle(s) == pending[s] = <<>>

OtherNames == {<<Blank>>}
OtherQuantities == {<<<<"0">>>>, <<<<"x">>>>}
OtherPrices == {<<<<"0", ".", "0">>>>, <<<<"2", ".", "5", "x">>>>}

ItemForm1(csrf, name, quantity, price) ==
    [csrf |-> csrf, name |-> name, quantity |-> quantity, price |-> price]

\* Two item forms whose three fields are a name, an integer and a number,
\* the forms that post only the quantity or only the price, and the forms
\* that differ from a full one in a single field (blank, zero or not a
\* number) or in the token, or post no field at all.
ItemForms ==
    {ItemForm1(TRUE, <<Widget>>, <<<<"5">>>>, <<<<"2", ".", "5", "0">>>>),
     ItemForm1(TRUE, <<Bolt>>, <<<<"1", "2">>>>, <<<<"9", ".", "9">>>>),
     ItemForm1(TRUE, <<>>, <<<<"1", "2">>>>, <<>>),
     ItemForm1(TRUE, <<>>, <<>>, <<<<"9", ".", "9">>>>),
     ItemForm1(TRUE, <<>>, <<>>, <<>>),
     ItemForm1(FALSE, <<Widget>>, <<<<"5">>>>, <<<<"2", ".", "5", "0">>>>)}
    \cup {ItemForm1(TRUE, n, <<<<"1", "2">>>>, <<<<"9", ".", "9">>>>) :
            n \in OtherNames}
    \cup {ItemForm1(TRUE, <<Bolt>>, q, <<<<"9", ".", "9">>>>) :
            q \in OtherQuantities}
    \cup {ItemForm1(TRUE, <<Bolt>>, <<<<"1", "2">>>>, p) : p \in OtherPrices}

ItemIds == 1..MaxId

\* The one user and the one item of the narrower input sets.
OneLogin == {f \in LoginForms : f.username = <<alice>>}
OneRegister ==
    {f \in RegisterForms : /\ f.csrf
                           /\ f.username = <<alice>>
                           /\ f.password = <<pass1>>
                           /\ f.confirm_password = <<pass1>>}
OneItem ==
    {f \in ItemForms : /\ f.csrf
                       /\ f.name = <<Widget>>
                       /\ f.quantity = <<<<"5">>>>
                       /\ f.price = <<<<"2", ".", "5", "0">>>>}

(***************************************************************************)
(* Specifications.                                                         *)
(***************************************************************************)
NoResponse ==
    [status |-> 0, location |-> "", template |-> "", flash |-> NoFlash,
     error |-> "", body |-> <<>>]

\* The state after create_tables on an empty database file.
Init ==
    /\ User = <<>>
    /\ Item = <<>>
    /\ session = [s \in Sessions |-> 0]
    /\ pending = [s \in Sessions |-> <<>>]
    /\ resp = NoResponse

\* Every request of either client, with the full account inputs and one
\* item input.
Next ==
    \/ \E s \in Sessions : Idle(s) /\ index(s)
    \/ \E s \in Sessions : Idle(s) /\ login(s, "GET", NoLogin)
    \/ \E s \in Sessions, f \in LoginForms : Idle(s) /\ login(s, "POST", f)
    \/ \E s \in Sessions : Idle(s) /\ logout(s)
    \/ \E s \in Sessions : Idle(s) /\ register(s, "GET", NoRegister)
    \/ \E s \in Sessions, f \in RegisterForms :
           Idle(s) /\ register(s, "POST", f)
    \/ \E s \in Sessions, salt \in Salts : register_commit(s, salt)
    \/ \E s \in Sessions : Idle(s) /\ add_item(s, "GET", NoItem)
    \/ \E s \in Sessions, f \in OneItem : Idle(s) /\ add_item(s, "POST", f)
    \/ \E s \in Sessions, id \in ItemIds :
           Idle(s) /\ edit_item(s, "GET", id, NoItem)
    \/ \E s \in Sessions, id \in ItemIds, f \in OneItem :
           Idle(s) /\ edit_item(s, "POST", id, f)
    \/ \E s \in Sessions, id \in ItemIds : Idle(s) /\ delete_item(s, id)
    \/ \E s \in Sessions : Idle(s) /\ export_items(s)

Spec == Init /\ [][Next]_vars

\* Every request of one client, with one account and the full item inputs.
NextItems ==
    \/ Idle("c1") /\ index("c1")
    \/ Idle("c1") /\ login("c1", "GET", NoLogin)
    \/ \E f \in OneLogin : Idle("c1") /\ login("c1", "POST", f)
    \/ Idle("c1") /\ logout("c1")
    \/ Idle("c1") /\ register("c1", "GET", NoRegister)
    \/ \E f \in OneRegister : Idle("c1") /\ register("c1", "POST", f)
    \/ \E salt \in Salts : register_commit("c1", salt)
    \/ Idle("c1") /\ add_item("c1", "GET", NoItem)
    \/ \E f \in ItemForms : Idle("c1") /\ add_item("c1", "POST", f)
    \/ \E id \in ItemIds : Idle("c1") /\ edit_item("c1", "GET", id, NoItem)
    \/ \E id \in ItemIds, f \in ItemForms :
           Idle("c1") /\ edit_item("c1", "POST", id, f)
    \/ \E id \in ItemIds : Idle("c1") /\ delete_item("c1", id)
    \/ Idle("c1") /\ export_items("c1")

SpecItems == Init /\ [][NextItems]_vars

(***************************************************************************)
(* Properties.                                                             *)
(***************************************************************************)
UsernameTaken(username) == \E i \in 1..Len(User) : User[i].username = username

HasIntegrityError == resp.error = "IntegrityError"

\* C2: in every reachable state no two User rows have the same username,
\* also when two register requests for one username both pass the
\* existence check before either commits: only one of them inserts a row.
C2_UniqueUsernames ==
    \A i, j \in 1..Len(User) :
        User[i].username = User[j].username => i = j

\* A register request lost the race: its commit was refused, the name is
\* in the table once.
C2_Witness ==
    /\ HasIntegrityError
    /\ User # <<>>
    /\ \A s \in Sessions : Idle(s)

\* A request of s to a route behind login_required.
Protected(s) ==
    \/ index(s)
    \/ logout(s)
    \/ \E f \in OneItem \cup {NoItem}, m \in Methods : add_item(s, m, f)
    \/ \E f \in OneItem \cup {NoItem}, m \in Methods, id \in ItemIds :
           edit_item(s, m, id, f)
    \/ \E id \in ItemIds : delete_item(s, id)
    \/ export_items(s)

\* A request of s that writes the Item table.
ItemWrite(s) ==
    \/ \E f \in OneItem, m \in Methods : add_item(s, m, f)
    \/ \E f \in OneItem, m \in Methods, id \in ItemIds : edit_item(s, m, id, f)
    \/ \E id \in ItemIds : delete_item(s, id)

\* C4: a request of an unauthenticated session to an auth-required route
\* (list, logout, add, edit, delete, export) is answered with the redirect
\* to login, carries no Item data and changes neither table; so every step
\* that changes the Item table is an item request of an authenticated
\* session.
C4_RouteGuard ==
    [][/\ \A s \in Sessions :
            (~is_authenticated(s) /\ Protected(s)) =>
                /\ resp' = unauthorized
                /\ resp'.location = "login"
                /\ resp'.body = <<>>
                /\ User' = User
                /\ Item' = Item
       /\ Item' # Item =>
            \E s \in Sessions : is_authenticated(s) /\ ItemWrite(s)]_vars

\* An unauthenticated request was turned away while the store held an Item
\* and another session was logged in.
C4_Witness ==
    /\ resp = unauthorized
    /\ Item # <<>>
    /\ \E s \in Sessions : ~is_authenticated(s)
    /\ \E s \in Sessions : is_authenticated(s)

\* The register forms the form layer accepts, and their posted values.
ValidRegisterForms ==
    {f \in RegisterForms : RegisterForm_validate(RegisterForm(f))}

ValidLoginForms == {f \in LoginForms : LoginForm_validate(LoginForm(f))}

\* The User rows registered with this username and this password.
RegisteredWith(username, password) ==
    {i \in 1..Len(User) :
        /\ User[i].username = username
        /\ User[i].password_hash =
               generate_password_hash(password, User[i].password_hash.salt)}

\* C1: once a User with username u exists, a register(u, p2) request with
\* any valid password p2 adds no User row and leaves the row of u (id,
\* username, password hash) as it is, and when it comes from an
\* unauthenticated session it is answered with 'Username already exists'.
C1_DuplicateRegister ==
    [][\A s \in Sessions, f \in ValidRegisterForms :
          (UsernameTaken(f.username[1]) /\ register(s, "POST", f)) =>
              /\ User' = User
              /\ ~is_authenticated(s) =>
                     resp' = redirect("register", DuplicateUsername)]_vars

\* A second registration of a taken name was refused.
C1_Witness ==
    /\ resp = redirect("register", DuplicateUsername)
    /\ User # <<>>

C9_Logout ==
    [][\A s \in Sessions :
          /\ (is_authenticated(s) /\ logout(s)) =>
                 /\ session'[s] = 0
                 /\ \A t \in Sessions \ {s} : session'[t] = session[t]
                 /\ User' = User
                 /\ Item' = Item
          /\ (~is_authenticated(s) /\ session'[s] # session[s]) =>
                 \E f \in ValidLoginForms :
                     /\ login(s, "POST", f)
                     /\ \E i \in RegisteredWith(f.username[1], f.password[1]) :
                            session'[s] = User[i].id
          /\ (~is_authenticated(s) /\ Protected(s)) =>
                 /\ resp' = unauthorized
                 /\ session'[s] = session[s]]_vars

\* A session has just logged out.
C9_Witness ==
    /\ resp = redirect("login", LoggedOut)
    /\ \E s \in Sessions : ~is_authenticated(s)
    /\ User # <<>>

\* C10: a login or register request (GET or POST, any form, a fresh valid
\* username included) of an authenticated session is redirected to the
\* item list; no User is created and the tables, the sessions and the
\* requests in flight stay as they are.
C10_AuthenticatedRedirect ==
    [][\A s \in Sessions :
          is_authenticated(s) =>
              /\ \A f \in LoginForms \cup {NoLogin}, m \in Methods :
                     login(s, m, f) =>
                         /\ resp' = redirect("index", NoFlash)
                         /\ UNCHANGED <<User, Item, session, pending>>
              /\ \A f \in RegisterForms \cup {NoRegister}, m \in Methods :
                     register(s, m, f) =>
                         /\ resp' = redirect("index", NoFlash)
                         /\ UNCHANGED <<User, Item, session, pending>>]_vars

\* An authenticated session was sent to the item list while a valid
\* username was still free.
C10_Witness ==
    /\ resp = redirect("index", NoFlash)
    /\ Len(User) = 1
    /\ \E s \in Sessions : is_authenticated(s)

\* The position of the row with this id in the Item table.
RowOf(id) == CHOOSE i \in 1..Len(Item) : Item[i].id = id

\* The posted form has the token and all three fields: a name that is not
\* blank, an integer and a number.
Submitted(f) ==
    /\ f.csrf
    /\ f.name # <<>> /\ strip(f.name[1]) # <<>>
    /\ f.quantity # <<>> /\ int(f.quantity[1]) # <<>>
    /\ f.price # <<>> /\ float(f.price[1]) # <<>>

\* The Item table after one row with a fresh id and the posted values is
\* added to it.
WithNewItem(f, id) ==
    Append(Item, [id |-> id, name |-> f.name[1],
                  quantity |-> int(f.quantity[1])[1],
                  price |-> float(f.price[1])[1]])

\* C5: for an authenticated session, every add submission with all three
\* fields, an integer quantity and a numeric price (0 and 0.0 included)
\* creates exactly one Item with a fresh id and those values, leaves the
\* Items there were unchanged, and a following list shows the table.
C5_AddCreates ==
    [][\A s \in Sessions :
          is_authenticated(s) =>
              /\ \A f \in ItemForms :
                     (Submitted(f) /\ add_item(s, "POST", f)) =>
                         /\ \E id \in ItemIds \ Ids(Item) :
                                Item' = WithNewItem(f, id)
                         /\ User' = User
              /\ index(s) => resp'.body = Item]_vars

\* The same for the submissions whose quantity and price are not zero.
C5_AddCreatesNonZero ==
    [][\A s \in Sessions :
          is_authenticated(s) =>
              /\ \A f \in ItemForms :
                     (/\ Submitted(f)
                      /\ int(f.quantity[1])[1] # 0
                      /\ float(f.price[1])[1] # 0
                      /\ add_item(s, "POST", f)) =>
                         /\ \E id \in ItemIds \ Ids(Item) :
                                Item' = WithNewItem(f, id)
                         /\ User' = User
              /\ index(s) => resp'.body = Item]_vars

\* C6: an edit POST for an existing Item that the form layer accepts (it is
\* answered 'Item updated') keeps the row's id, gives each posted field its
\* posted value, keeps the value of each field that was not posted, leaves
\* every other row unchanged, adds and removes no row and leaves the User
\* table unchanged.
C6_EditFrame ==
    [][\A s \in Sessions, id \in Ids(Item), f \in ItemForms :
          (/\ resp'.flash = ItemUpdated
           /\ is_authenticated(s)
           /\ edit_item(s, "POST", id, f)) =>
              LET old == Item[RowOf(id)]
                  new == Item'[RowOf(id)]
              IN  /\ Len(Item') = Len(Item)
                  /\ \A j \in 1..Len(Item) : j # RowOf(id) => Item'[j] = Item[j]
                  /\ new.id = old.id
                  /\ new.name = IF f.name = <<>> THEN old.name ELSE f.name[1]
                  /\ new.quantity = IF f.quantity = <<>> THEN old.quantity
                                    ELSE int(f.quantity[1])[1]
                  /\ new.price = IF f.price = <<>> THEN old.price
                                 ELSE float(f.price[1])[1]
                  /\ User' = User
                  /\ resp' = redirect("index", ItemUpdated)]_vars

\* An edit was accepted while the table held two rows that differ in every
\* field.
C6_Witness ==
    /\ resp = redirect("index", ItemUpdated)
    /\ Len(Item) = 2
    /\ Item[1].name # Item[2].name
    /\ Item[1].quantity # Item[2].quantity
    /\ Item[1].price # Item[2].price

\* The Item table without its row at position i.
Without(i) ==
    [j \in 1..(Len(Item) - 1) |-> IF j < i THEN Item[j] ELSE Item[j + 1]]

\* C7: for an authenticated session, delete(id) of an existing id removes
\* that row and no other; delete(id) and edit(id) of an id that has no row
\* answer 404 and change nothing.
C7_DeleteNotFound ==
    [][\A s \in Sessions, id \in ItemIds :
          is_authenticated(s) =>
              /\ delete_item(s, id) =>
                     IF id \in Ids(Item)
                     THEN /\ Item' = Without(RowOf(id))
                          /\ User' = User
                     ELSE /\ resp' = abort(404, "NotFound")
                          /\ UNCHANGED <<User, Item, session>>
              /\ id \notin Ids(Item) =>
                     \A f \in ItemForms \cup {NoItem}, m \in Methods :
                         edit_item(s, m, id, f) =>
                             /\ resp' = abort(404, "NotFound")
                             /\ UNCHANGED <<User, Item, session>>]_vars

\* A request for an id that has no row was answered 404 while the table
\* held another row.
C7_Witness ==
    /\ resp = abort(404, "NotFound")
    /\ Item # <<>>

\* C8: for an authenticated session, export answers with a CSV of one line
\* more than there are Items: the header ID,Name,Quantity,Price, then one
\* row per Item in table order with its id, name, quantity and price; the
\* store is unchanged.
C8_ExportCsv ==
    [][\A s \in Sessions :
          (is_authenticated(s) /\ export_items(s)) =>
              /\ resp'.status = 200
              /\ Len(resp'.body) = Len(Item) + 1
              /\ resp'.body[1] = CsvHeader
              /\ \A i \in 1..Len(Item) : resp'.body[i + 1] = CsvRow(Item[i])
              /\ UNCHANGED <<User, Item>>]_vars

=============================================================================
